---- MODULE Spec2Model ----
(***************************************************************************)
(* A model of three of the patches of this repository:                     *)
(*   - the media stream devices controller                                 *)
(*     (shell/browser/media/media_stream_devices_controller.cc),           *)
(*   - the embedder preload hook of the JavaScript environment,            *)
(*   - the kNoEnableWasmTrapHandler process initialization flag.           *)
(* The three parts share no state; each has a specification of its own     *)
(* (MediaSpec, EnvSpec, PlatformSpec) in which the other parts stay idle.  *)
(*                                                                         *)
(* A std::string is modelled as the sequence of its ':'-separated fields:  *)
(* "" is <<>>, "cam1" is <<"cam1">>, "screen:1:0" is <<"screen","1","0">>. *)
(***************************************************************************)
EXTENDS Integers, Sequences, FiniteSets, TLC

VARIABLES
  \* ---- media stream devices controller ----
  request_,               \* the content::MediaStreamRequest held by the controller
  callback_,              \* "bound" or "null": the OnceCallback member
  microphone_requested_,
  webcam_requested_,
  pc,                     \* "constructed", "taken", "destroyed", "crashed"
  takeActionRan,          \* TakeAction has been called and has returned
  calls,                  \* every invocation of the completion callback so far
  sessionCallback,        \* "bound" when the session's chooser owns the callback
  consulted,              \* the collaborators consulted: "session", "devices"
  audio_devices,          \* the host's audio capture devices
  video_devices,          \* the host's video capture devices
  \* ---- embedder preload hook ----
  envs,                   \* the node::Environment instances
  workers,                \* the node::worker::Worker objects
  nodeCrashed,            \* a CHECK of the native layer failed
  \* ---- process initialization ----
  flags,                  \* ProcessInitializationFlags::Flags given to the initialization
  NODE_USE_V8_WASM_TRAP_HANDLER,  \* the build macro around the registration
  signalBlock,            \* the block enclosing the registration is entered
  initPc,                 \* "start", "initialized", "crashed"
  trapHandlerCalls        \* who called V8::EnableWebAssemblyTrapHandler, in order

mediaVars == <<request_, callback_, microphone_requested_, webcam_requested_, pc,
               takeActionRan, calls, sessionCallback, consulted, audio_devices, video_devices>>
envVars == <<envs, workers, nodeCrashed>>
platformVars == <<flags, NODE_USE_V8_WASM_TRAP_HANDLER, signalBlock, initPc,
                  trapHandlerCalls>>
vars == <<mediaVars, envVars, platformVars>>

(***************************************************************************)
(* Bounds.                                                                 *)
(***************************************************************************)
\* The longest list of capture devices of one kind attached to the host.
MaxDevices == 2

\* The number of environments (the main one and its workers).
MaxEnvs == 3

\* The number of user modules preloaded with --require.
MaxRequire == 1

(***************************************************************************)
(* Media stream devices controller: values.                                *)
(***************************************************************************)
AudioTypes == {"NO_SERVICE", "DEVICE_AUDIO_CAPTURE", "GUM_TAB_AUDIO_CAPTURE",
               "GUM_DESKTOP_AUDIO_CAPTURE"}

VideoTypes == {"NO_SERVICE", "DEVICE_VIDEO_CAPTURE", "GUM_TAB_VIDEO_CAPTURE",
               "GUM_DESKTOP_VIDEO_CAPTURE"}

RequestTypes == {"MEDIA_DEVICE_ACCESS", "MEDIA_DEVICE_UPDATE",
                 "MEDIA_GENERATE_STREAM", "MEDIA_OPEN_DEVICE_PEPPER_ONLY"}

\* blink::MediaStreamDevice(type, id, name)
MediaStreamDevice(type, id, name) == [type |-> type, id |-> id, name |-> name]

\* A null const blink::MediaStreamDevice*.
nullptr == MediaStreamDevice("nullptr", <<>>, "")

\* The device ids the host may report, and the ids a request may name.
AudioIds == {<<"mic1">>, <<"mic2">>, <<"mic3">>}

VideoIds == {<<"cam1">>, <<"cam2">>, <<"cam3">>}

RequestedAudioIds == {<<>>, <<"mic2">>, <<"mic9">>}

RequestedVideoIds == {<<>>, <<"cam2">>, <<"cam9">>, <<"screen", "1", "0">>,
                      <<"screen", "01", "0">>, <<"window", "1", "1">>,
                      <<"screen", "x", "0">>, <<"screen", "1">>}

\* The duplicate-free sequences over S of length at most n.
InjSeqs(S, n) ==
  UNION { { s \in [1..k -> S] : \A i, j \in 1..k : s[i] = s[j] => i = j } :
          k \in 0..n }

AudioDeviceLists ==
  { [i \in 1..Len(s) |-> MediaStreamDevice("DEVICE_AUDIO_CAPTURE", s[i], "Microphone")] :
    s \in InjSeqs(AudioIds, MaxDevices) }

VideoDeviceLists ==
  { [i \in 1..Len(s) |-> MediaStreamDevice("DEVICE_VIDEO_CAPTURE", s[i], "Camera")] :
    s \in InjSeqs(VideoIds, MaxDevices) }

Requests ==
  [audio_type : AudioTypes, video_type : VideoTypes, request_type : RequestTypes,
   requested_audio_device_id : RequestedAudioIds,
   requested_video_device_id : RequestedVideoIds,
   frame_found : BOOLEAN]

(***************************************************************************)
(* content::DesktopMediaID.                                                *)
(***************************************************************************)
kFullDesktopScreenId == -1

DesktopMediaID(type, id, window_id) == [type |-> type, id |-> id, window_id |-> window_id]

\* base::StringToInt64 on one field: the decimal literals the model uses.
IsInt64(s) == s \in {"0", "1", "-1", "01", "7"}

StringToInt64(s) ==
  CASE s = "0" -> 0
    [] s = "1" -> 1
    [] s = "01" -> 1
    [] s = "-1" -> -1
    [] s = "7" -> 7
    [] OTHER -> 0

NumberToString(n) ==
  CASE n = 0 -> "0"
    [] n = 1 -> "1"
    [] n = -1 -> "-1"
    [] n = 7 -> "7"
    [] OTHER -> "?"

\* DesktopMediaID::Parse: "<screen|window>:<id>:<window_id>", or TYPE_NONE.
DesktopMediaIDParse(str) ==
  IF Len(str) # 3 THEN DesktopMediaID("TYPE_NONE", 0, 0)
  ELSE IF str[1] \notin {"screen", "window"} THEN DesktopMediaID("TYPE_NONE", 0, 0)
  ELSE IF ~IsInt64(str[2]) \/ ~IsInt64(str[3]) THEN DesktopMediaID("TYPE_NONE", 0, 0)
  ELSE DesktopMediaID(IF str[1] = "screen" THEN "TYPE_SCREEN" ELSE "TYPE_WINDOW",
                      StringToInt64(str[2]), StringToInt64(str[3]))

\* DesktopMediaID::ToString.
DesktopMediaIDToString(m) ==
  CASE m.type = "TYPE_SCREEN" ->
         <<"screen", NumberToString(m.id), NumberToString(m.window_id)>>
    [] m.type = "TYPE_WINDOW" ->
         <<"window", NumberToString(m.id), NumberToString(m.window_id)>>
    [] OTHER -> <<>>

(***************************************************************************)
(* MediaCaptureDevicesDispatcher.                                          *)
(***************************************************************************)
GetAudioCaptureDevices == audio_devices

GetVideoCaptureDevices == video_devices

\* The first device of the list with the given id, or nullptr.
FindDeviceWithId(devices, id) ==
  IF \E i \in 1..Len(devices) : devices[i].id = id
  THEN devices[CHOOSE i \in 1..Len(devices) :
                 /\ devices[i].id = id
                 /\ \A j \in 1..(i - 1) : devices[j].id # id]
  ELSE nullptr

GetRequestedAudioDevice(id) == FindDeviceWithId(GetAudioCaptureDevices, id)

GetRequestedVideoDevice(id) == FindDeviceWithId(GetVideoCaptureDevices, id)

GetFirstAvailableAudioDevice ==
  IF GetAudioCaptureDevices = <<>> THEN nullptr ELSE Head(GetAudioCaptureDevices)

GetFirstAvailableVideoDevice ==
  IF GetVideoCaptureDevices = <<>> THEN nullptr ELSE Head(GetVideoCaptureDevices)

PushIfFound(devices, device) ==
  IF device # nullptr THEN Append(devices, device) ELSE devices

\* GetDefaultDevices(audio, video, &devices): devices with the defaults appended.
GetDefaultDevices(audio, video, devices) ==
  LET withAudio == IF audio THEN PushIfFound(devices, GetFirstAvailableAudioDevice)
                   ELSE devices
  IN IF video THEN PushIfFound(withAudio, GetFirstAvailableVideoDevice) ELSE withAudio

(***************************************************************************)
(* MediaStreamDevicesController.                                           *)
(***************************************************************************)
\* Variant: only devices of a requested kind count.
HasAnyAvailableDevice_RequestedKinds ==
  \/ microphone_requested_ /\ GetAudioCaptureDevices # <<>>
  \/ webcam_requested_ /\ GetVideoCaptureDevices # <<>>

HasAnyAvailableDevice ==
  ~(GetAudioCaptureDevices = <<>> /\ GetVideoCaptureDevices = <<>>)

\* The constructor's initializer of microphone_requested_.
MicrophoneRequested(request) ==
  \/ request.audio_type = "DEVICE_AUDIO_CAPTURE"
  \/ request.request_type = "MEDIA_OPEN_DEVICE_PEPPER_ONLY"

\* The constructor's initializer of webcam_requested_.
WebcamRequested(request) ==
  \/ request.video_type = "DEVICE_VIDEO_CAPTURE"
  \/ request.request_type = "MEDIA_OPEN_DEVICE_PEPPER_ONLY"

\* Variant: only the video kind is tested.
IsScreenCast_VideoOnly ==
  \/ request_.video_type = "GUM_TAB_VIDEO_CAPTURE"
  \/ request_.video_type = "GUM_DESKTOP_VIDEO_CAPTURE"

\* TakeAction's test for the tab and desktop capture path.
IsScreenCast ==
  \/ request_.audio_type = "GUM_TAB_AUDIO_CAPTURE"
  \/ request_.video_type = "GUM_TAB_VIDEO_CAPTURE"
  \/ request_.audio_type = "GUM_DESKTOP_AUDIO_CAPTURE"
  \/ request_.video_type = "GUM_DESKTOP_VIDEO_CAPTURE"

\* Variant: the requested id is ignored.
ScreenId_AlwaysFullScreen == DesktopMediaID("TYPE_SCREEN", kFullDesktopScreenId, 0)

\* screen_id of HandleUserMediaRequest.
ScreenId ==
  IF request_.requested_video_device_id = <<>>
  THEN DesktopMediaID("TYPE_SCREEN", kFullDesktopScreenId, 0)
  ELSE DesktopMediaIDParse(request_.requested_video_device_id)

\* Variant: the desktop-audio descriptor is built like the tab ones, with no id
\* and no name.
UserMediaDevices_LoopbackUnnamed ==
  LET d1 == IF request_.audio_type = "GUM_TAB_AUDIO_CAPTURE"
            THEN <<MediaStreamDevice("GUM_TAB_AUDIO_CAPTURE", <<>>, "")>> ELSE <<>>
      d2 == IF request_.video_type = "GUM_TAB_VIDEO_CAPTURE"
            THEN <<MediaStreamDevice("GUM_TAB_VIDEO_CAPTURE", <<>>, "")>> ELSE <<>>
      d3 == IF request_.audio_type = "GUM_DESKTOP_AUDIO_CAPTURE"
            THEN <<MediaStreamDevice("GUM_DESKTOP_AUDIO_CAPTURE", <<>>, "")>>
            ELSE <<>>
      d4 == IF request_.video_type = "GUM_DESKTOP_VIDEO_CAPTURE"
            THEN <<MediaStreamDevice("GUM_DESKTOP_VIDEO_CAPTURE",
                                     DesktopMediaIDToString(ScreenId), "Screen")>>
            ELSE <<>>
  IN d1 \o d2 \o d3 \o d4

\* The devices HandleUserMediaRequest synthesizes.
UserMediaDevices ==
  LET d1 == IF request_.audio_type = "GUM_TAB_AUDIO_CAPTURE"
            THEN <<MediaStreamDevice("GUM_TAB_AUDIO_CAPTURE", <<>>, "")>> ELSE <<>>
      d2 == IF request_.video_type = "GUM_TAB_VIDEO_CAPTURE"
            THEN <<MediaStreamDevice("GUM_TAB_VIDEO_CAPTURE", <<>>, "")>> ELSE <<>>
      d3 == IF request_.audio_type = "GUM_DESKTOP_AUDIO_CAPTURE"
            THEN <<MediaStreamDevice("GUM_DESKTOP_AUDIO_CAPTURE", <<"loopback">>,
                                     "System Audio")>>
            ELSE <<>>
      d4 == IF request_.video_type = "GUM_DESKTOP_VIDEO_CAPTURE"
            THEN <<MediaStreamDevice("GUM_DESKTOP_VIDEO_CAPTURE",
                                     DesktopMediaIDToString(ScreenId), "Screen")>>
            ELSE <<>>
  IN d1 \o d2 \o d3 \o d4

\* Variant: no fall back to the first available device.
PepperDevice_NoFallback ==
  IF request_.audio_type = "DEVICE_AUDIO_CAPTURE"
  THEN GetRequestedAudioDevice(request_.requested_audio_device_id)
  ELSE IF request_.video_type = "DEVICE_VIDEO_CAPTURE"
  THEN GetRequestedVideoDevice(request_.requested_video_device_id)
  ELSE nullptr

\* The device the MEDIA_OPEN_DEVICE_PEPPER_ONLY case of Accept picks, or nullptr.
PepperDevice ==
  IF request_.audio_type = "DEVICE_AUDIO_CAPTURE"
  THEN LET device == GetRequestedAudioDevice(request_.requested_audio_device_id)
       IN IF device = nullptr THEN GetFirstAvailableAudioDevice ELSE device
  ELSE IF request_.video_type = "DEVICE_VIDEO_CAPTURE"
  THEN LET device == GetRequestedVideoDevice(request_.requested_video_device_id)
       IN IF device = nullptr THEN GetFirstAvailableVideoDevice ELSE device
  ELSE nullptr

\* Variant: the defaults are chosen for every requested kind, resolved by id or not.
GenerateStreamDevices_DefaultsForRequested ==
  LET audio_device ==
        IF request_.requested_audio_device_id # <<>>
        THEN GetRequestedAudioDevice(request_.requested_audio_device_id)
        ELSE nullptr
      video_device ==
        IF request_.requested_video_device_id # <<>>
        THEN GetRequestedVideoDevice(request_.requested_video_device_id)
        ELSE nullptr
      byId == PushIfFound(PushIfFound(<<>>, audio_device), video_device)
  IN GetDefaultDevices(microphone_requested_, webcam_requested_, byId)

\* The devices the MEDIA_GENERATE_STREAM case of Accept collects.
GenerateStreamDevices ==
  LET audio_device ==
        IF request_.requested_audio_device_id # <<>>
        THEN GetRequestedAudioDevice(request_.requested_audio_device_id)
        ELSE nullptr
      video_device ==
        IF request_.requested_video_device_id # <<>>
        THEN GetRequestedVideoDevice(request_.requested_video_device_id)
        ELSE nullptr
      needs_audio_device == microphone_requested_ /\ audio_device = nullptr
      needs_video_device == webcam_requested_ /\ video_device = nullptr
      byId == PushIfFound(PushIfFound(<<>>, audio_device), video_device)
  IN IF needs_audio_device \/ needs_video_device
     THEN GetDefaultDevices(needs_audio_device, needs_video_device, byId)
     ELSE byId

\* Accept reaches NOTREACHED().
AcceptNotReached ==
  /\ microphone_requested_ \/ webcam_requested_
  /\ request_.request_type = "MEDIA_DEVICE_UPDATE"

\* Variant: MEDIA_DEVICE_UPDATE is served like MEDIA_DEVICE_ACCESS.
AcceptDevices_UpdateAsAccess ==
  IF ~(microphone_requested_ \/ webcam_requested_) THEN <<>>
  ELSE CASE request_.request_type = "MEDIA_OPEN_DEVICE_PEPPER_ONLY" ->
              PushIfFound(<<>>, PepperDevice)
         [] request_.request_type = "MEDIA_GENERATE_STREAM" -> GenerateStreamDevices
         [] OTHER -> GetDefaultDevices(microphone_requested_, webcam_requested_, <<>>)

\* The devices Accept hands to the callback.
AcceptDevices ==
  IF ~(microphone_requested_ \/ webcam_requested_) THEN <<>>
  ELSE CASE request_.request_type = "MEDIA_OPEN_DEVICE_PEPPER_ONLY" ->
              PushIfFound(<<>>, PepperDevice)
         [] request_.request_type = "MEDIA_GENERATE_STREAM" -> GenerateStreamDevices
         [] request_.request_type = "MEDIA_DEVICE_ACCESS" ->
              GetDefaultDevices(microphone_requested_, webcam_requested_, <<>>)
         [] OTHER -> <<>>

\* std::move(callback_).Run(devices, result, nullptr); a null callback_ is fatal.
RunCallback(devices, result, nextPc) ==
  IF callback_ = "bound"
  THEN /\ calls' = Append(calls, [by |-> "controller", devices |-> devices,
                                  result |-> result])
       /\ callback_' = "null"
       /\ pc' = nextPc
  ELSE /\ pc' = "crashed"
       /\ UNCHANGED <<calls, callback_>>

\* Variant: the two results of the conditional are exchanged.
HandleUserMediaRequest_Inverted ==
  /\ RunCallback(UserMediaDevices,
                 IF UserMediaDevices = <<>> THEN "OK" ELSE "NO_HARDWARE", "taken")
  /\ UNCHANGED <<sessionCallback, consulted>>

HandleUserMediaRequest ==
  /\ RunCallback(UserMediaDevices,
                 IF UserMediaDevices = <<>> THEN "NO_HARDWARE" ELSE "OK", "taken")
  /\ UNCHANGED <<sessionCallback, consulted>>

\* Accept.  NOTREACHED() is fatal in a build with DCHECKs and a no-op otherwise.
Accept ==
  /\ UNCHANGED sessionCallback
  /\ IF AcceptNotReached
     THEN \E dcheck_is_on \in BOOLEAN :
            IF dcheck_is_on
            THEN pc' = "crashed" /\ UNCHANGED <<calls, callback_>>
            ELSE RunCallback(AcceptDevices, "OK", "taken")
     ELSE RunCallback(AcceptDevices, "OK", "taken")

\* Variant: the result given to Deny is not the one passed on.
Deny_IgnoresResult(result) ==
  /\ UNCHANGED sessionCallback
  /\ RunCallback(<<>>, "FAILED_DUE_TO_SHUTDOWN", "taken")

Deny(result) ==
  /\ UNCHANGED sessionCallback
  /\ RunCallback(<<>>, result, "taken")

\* api::Session::ChooseMediaDevice(request_, std::move(callback_)) returning true:
\* the session takes the callback and resolves it later.
ChooseMediaDeviceAccepts ==
  /\ sessionCallback' = callback_
  /\ callback_' = "null"
  /\ consulted' = consulted \cup {"session"}
  /\ pc' = "taken"
  /\ UNCHANGED calls

\* Variant: the return after an accepting chooser is missing, and the controller
\* answers too.
ChooseOrResolve_NoReturn ==
  /\ sessionCallback' = callback_
  /\ consulted' = consulted \cup {"session"}
  /\ RunCallback(<<>>, "NO_HARDWARE", "taken")

\* TakeAction once the frame is found: the chooser is offered the callback and, if it
\* declines, the host's devices decide between Accept and Deny.
ChooseOrResolve ==
  \/ ChooseMediaDeviceAccepts
  \/ /\ consulted' = consulted \cup {"session", "devices"}
     /\ IF HasAnyAvailableDevice THEN Accept ELSE Deny("NO_HARDWARE")

\* Variant: a missing frame is answered as missing hardware.
FrameNotFound_Denies ==
  /\ Deny("NO_HARDWARE")
  /\ UNCHANGED consulted

\* TakeAction's early return when RenderFrameHost::FromID finds no frame.
FrameNotFound ==
  /\ pc' = "taken"
  /\ UNCHANGED <<calls, callback_, sessionCallback, consulted>>

\* void MediaStreamDevicesController::TakeAction()
TakeAction ==
  /\ pc = "constructed"
  /\ IF IsScreenCast
     THEN HandleUserMediaRequest
     ELSE IF ~request_.frame_found
     THEN FrameNotFound
     ELSE ChooseOrResolve
  /\ takeActionRan' = (pc' = "taken")
  /\ UNCHANGED <<request_, microphone_requested_, webcam_requested_,
                 audio_devices, video_devices>>
  /\ UNCHANGED <<envVars, platformVars>>

\* Variant: the destructor does not test callback_.is_null().
Destructor_Always ==
  /\ pc \in {"constructed", "taken"}
  /\ calls' = Append(calls, [by |-> "controller", devices |-> <<>>,
                             result |-> "FAILED_DUE_TO_SHUTDOWN"])
  /\ callback_' = "null"
  /\ pc' = "destroyed"
  /\ UNCHANGED <<request_, microphone_requested_, webcam_requested_, sessionCallback,
                 consulted, audio_devices, video_devices, takeActionRan>>
  /\ UNCHANGED <<envVars, platformVars>>

\* Variant: the destructor reports NO_HARDWARE.
Destructor_NoHardware ==
  /\ pc \in {"constructed", "taken"}
  /\ IF callback_ # "null"
     THEN RunCallback(<<>>, "NO_HARDWARE", "destroyed")
     ELSE pc' = "destroyed" /\ UNCHANGED <<calls, callback_>>
  /\ UNCHANGED <<request_, microphone_requested_, webcam_requested_, sessionCallback,
                 consulted, audio_devices, video_devices, takeActionRan>>
  /\ UNCHANGED <<envVars, platformVars>>

\* MediaStreamDevicesController::~MediaStreamDevicesController()
Destructor ==
  /\ pc \in {"constructed", "taken"}
  /\ IF callback_ # "null"
     THEN RunCallback(<<>>, "FAILED_DUE_TO_SHUTDOWN", "destroyed")
     ELSE pc' = "destroyed" /\ UNCHANGED <<calls, callback_>>
  /\ UNCHANGED <<request_, microphone_requested_, webcam_requested_, sessionCallback,
                 consulted, audio_devices, video_devices, takeActionRan>>
  /\ UNCHANGED <<envVars, platformVars>>

\* The session's chooser resolves the callback it took, with the devices it chose.
SessionResolves ==
  /\ sessionCallback = "bound"
  /\ \E devices \in {<<>>, GetDefaultDevices(TRUE, TRUE, <<>>)} :
       calls' = Append(calls, [by |-> "session", devices |-> devices,
                               result |-> IF devices = <<>> THEN "PERMISSION_DENIED"
                                          ELSE "OK"])
  /\ sessionCallback' = "null"
  /\ UNCHANGED <<request_, callback_, microphone_requested_, webcam_requested_, pc,
                 takeActionRan, consulted, audio_devices, video_devices>>
  /\ UNCHANGED <<envVars, platformVars>>

\* MediaStreamDevicesController(request, callback), on a host with some devices.
MediaInit ==
  /\ request_ \in Requests
  /\ callback_ = "bound"
  /\ microphone_requested_ = MicrophoneRequested(request_)
  /\ webcam_requested_ = WebcamRequested(request_)
  /\ pc = "constructed"
  /\ takeActionRan = FALSE
  /\ calls = <<>>
  /\ sessionCallback = "null"
  /\ consulted = {}
  /\ audio_devices \in AudioDeviceLists
  /\ video_devices \in VideoDeviceLists

MediaIdle ==
  /\ request_ = [audio_type |-> "NO_SERVICE", video_type |-> "NO_SERVICE",
                 request_type |-> "MEDIA_DEVICE_ACCESS",
                 requested_audio_device_id |-> <<>>,
                 requested_video_device_id |-> <<>>, frame_found |-> FALSE]
  /\ callback_ = "null"
  /\ microphone_requested_ = FALSE
  /\ webcam_requested_ = FALSE
  /\ pc = "destroyed"
  /\ takeActionRan = FALSE
  /\ calls = <<>>
  /\ sessionCallback = "null"
  /\ consulted = {}
  /\ audio_devices = <<>>
  /\ video_devices = <<>>

EnvIdle ==
  /\ envs = <<>>
  /\ workers = <<>>
  /\ nodeCrashed = FALSE

PlatformIdle ==
  /\ flags = 0
  /\ NODE_USE_V8_WASM_TRAP_HANDLER = FALSE
  /\ signalBlock = FALSE
  /\ initPc = "initialized"
  /\ trapHandlerCalls = <<>>

MediaNext == TakeAction \/ Destructor \/ SessionResolves

MediaSpecInit == MediaInit /\ EnvIdle /\ PlatformIdle

MediaSpec == MediaSpecInit /\ [][MediaNext]_vars

\* HandleUserMediaRequest() entered on its own, whatever the kinds of the request.
CallHandleUserMediaRequest ==
  /\ pc = "constructed"
  /\ HandleUserMediaRequest
  /\ takeActionRan' = FALSE
  /\ UNCHANGED <<request_, microphone_requested_, webcam_requested_,
                 audio_devices, video_devices>>
  /\ UNCHANGED <<envVars, platformVars>>

UserMediaNext == CallHandleUserMediaRequest \/ Destructor

UserMediaSpecInit == MediaInit /\ EnvIdle /\ PlatformIdle

\* The tab and desktop path as a unit: the method applied to every request.
UserMediaSpec == UserMediaSpecInit /\ [][UserMediaNext]_vars

(***************************************************************************)
(* Embedder preload hook of node::Environment.                             *)
(***************************************************************************)
\* The EmbedderPreloadCallback values: an empty std::function, or a hook that sets
\* process.prop to its own name.
Hooks == {"preloadA", "preloadB"}

nullfn == "nullptr"

\* node::CreateEnvironment: a fresh Environment.
NewEnvironment(kind, parent) ==
  [kind |-> kind, parent |-> parent, embedder_preload_ |-> nullfn, pc |-> "created",
   hasEmbedderPreload |-> "unqueried", trace |-> <<>>, hook_args |-> <<>>,
   process_prop |-> "undefined", entry_saw |-> "none"]

\* LoadEnvironment(env, cb, preload), up to the call of StartExecution.
LoadEnvironment(env, preload) ==
  [env EXCEPT !.embedder_preload_ = IF preload # nullfn THEN preload ELSE @,
              !.pc = "started"]

\* Variant: the flag does not look at the callback.
GetEmbedderOptions_AlwaysTrue(env) == [hasEmbedderPreload |-> TRUE]

\* GetEmbedderOptions: the hasEmbedderPreload property of the returned object.
GetEmbedderOptions(env) == [hasEmbedderPreload |-> env.embedder_preload_ # nullfn]

\* RunEmbedderPreload(process, require): CHECK(env->embedder_preload()) passes.
RunEmbedderPreloadChecks(env, args) ==
  /\ env.embedder_preload_ # nullfn
  /\ Len(args) = 2
  /\ args[1] = "process"
  /\ args[2] = "require"

\* The environment after env->embedder_preload()(env, process, require).
RunEmbedderPreload(env, args) ==
  [env EXCEPT !.trace = Append(@, "embedder_preload"),
              !.hook_args = Append(@, args),
              !.process_prop = env.embedder_preload_]

\* The environment after loadPreloadModules() has run n --require modules.
LoadPreloadModules(env, n) ==
  [env EXCEPT !.trace = @ \o [i \in 1..n |-> "user_module"]]

\* Variant: the embedder preload runs after the user's preload modules.
SetupUserModules_HookLast(env, n) ==
  LET options == GetEmbedderOptions(env)
      loaded == LoadPreloadModules(env, n)
      hooked == IF options.hasEmbedderPreload
                THEN RunEmbedderPreload(loaded, <<"process", "require">>)
                ELSE loaded
  IN [hooked EXCEPT !.hasEmbedderPreload =
                      IF options.hasEmbedderPreload THEN "true" ELSE "false",
                    !.pc = "preloaded"]

\* setupUserModules() when no CHECK fails: the embedder preload, then the user's
\* preload modules.
SetupUserModules(env, n) ==
  LET options == GetEmbedderOptions(env)
      hooked == IF options.hasEmbedderPreload
                THEN RunEmbedderPreload(env, <<"process", "require">>)
                ELSE env
      loaded == LoadPreloadModules(hooked, n)
  IN [loaded EXCEPT !.hasEmbedderPreload =
                      IF options.hasEmbedderPreload THEN "true" ELSE "false",
                    !.pc = "preloaded"]

\* Worker::Worker: the initializer of embedder_preload_.
WorkerEmbedderPreload(env) == env.embedder_preload_

\* The embedder calls LoadEnvironment on the main environment.
LoadMainEnvironment ==
  /\ ~nodeCrashed
  /\ envs[1].pc = "created"
  /\ \E preload \in Hooks \cup {nullfn} :
       envs' = [envs EXCEPT ![1] = LoadEnvironment(@, preload)]
  /\ UNCHANGED <<workers, nodeCrashed>>
  /\ UNCHANGED <<mediaVars, platformVars>>

\* The bootstrap of environment e reaches setupUserModules().
SetupUserModulesStep ==
  /\ ~nodeCrashed
  /\ \E e \in 1..Len(envs) :
       /\ envs[e].pc = "started"
       /\ IF GetEmbedderOptions(envs[e]).hasEmbedderPreload
             /\ ~RunEmbedderPreloadChecks(envs[e], <<"process", "require">>)
          THEN nodeCrashed' = TRUE /\ UNCHANGED envs
          ELSE /\ \E n \in 0..MaxRequire :
                    envs' = [envs EXCEPT ![e] = SetupUserModules(@, n)]
               /\ UNCHANGED nodeCrashed
  /\ UNCHANGED workers
  /\ UNCHANGED <<mediaVars, platformVars>>

\* The entry point of environment e (the main script, or the worker's script) runs.
RunEntryPoint ==
  /\ ~nodeCrashed
  /\ \E e \in 1..Len(envs) :
       /\ envs[e].pc = "preloaded"
       /\ envs' = [envs EXCEPT ![e].trace = Append(@, "entry"),
                               ![e].entry_saw = envs[e].process_prop,
                               ![e].pc = "running"]
  /\ UNCHANGED <<workers, nodeCrashed>>
  /\ UNCHANGED <<mediaVars, platformVars>>

\* User code of a running environment constructs a Worker.
NewWorker ==
  /\ ~nodeCrashed
  /\ Len(workers) + 1 < MaxEnvs
  /\ \E p \in 1..Len(envs) :
       /\ envs[p].pc = "running"
       /\ workers' = Append(workers, [parent |-> p, state |-> "constructed",
                                      embedder_preload_ |-> WorkerEmbedderPreload(envs[p])])
  /\ UNCHANGED <<envs, nodeCrashed>>
  /\ UNCHANGED <<mediaVars, platformVars>>

\* Worker::Run: the worker's thread creates its environment and calls
\* LoadEnvironment(env_.get(), StartExecutionCallback{}, std::move(embedder_preload_)).
WorkerRun ==
  /\ ~nodeCrashed
  /\ \E w \in 1..Len(workers) :
       /\ workers[w].state = "constructed"
       /\ envs' = Append(envs, LoadEnvironment(NewEnvironment("worker", workers[w].parent),
                                               workers[w].embedder_preload_))
       /\ workers' = [workers EXCEPT ![w].state = "running",
                                     ![w].embedder_preload_ = nullfn]
  /\ UNCHANGED nodeCrashed
  /\ UNCHANGED <<mediaVars, platformVars>>

\* node::CreateEnvironment has made the main environment.
EnvInit ==
  /\ envs = <<NewEnvironment("main", 0)>>
  /\ workers = <<>>
  /\ nodeCrashed = FALSE

EnvNext == LoadMainEnvironment \/ SetupUserModulesStep \/ RunEntryPoint \/ NewWorker
           \/ WorkerRun

EnvSpecInit == MediaIdle /\ EnvInit /\ PlatformIdle

EnvSpec == EnvSpecInit /\ [][EnvNext]_vars

(***************************************************************************)
(* Process initialization: PlatformInit and the WebAssembly trap handler.  *)
(***************************************************************************)
kNoInitializeCppgc == 8192

kGeneratePredictableSnapshot == 16384

kNoEnableWasmTrapHandler == 32768

\* flags & bit, for a bit that is a power of two.
HasFlag(f, bit) == (f \div bit) % 2 = 1

\* The flags values an embedder may pass.
FlagValues ==
  { a + b + c : a \in {0, kNoInitializeCppgc}, b \in {0, kGeneratePredictableSnapshot},
                c \in {0, kNoEnableWasmTrapHandler} }

\* Variant: the guard tests the neighbouring flag bit.
PlatformInitEnables_WrongBit(f) ==
  /\ signalBlock
  /\ NODE_USE_V8_WASM_TRAP_HANDLER
  /\ ~HasFlag(f, kGeneratePredictableSnapshot)

\* PlatformInit(flags) reaches and executes V8::EnableWebAssemblyTrapHandler(false).
PlatformInitEnables(f) ==
  /\ signalBlock
  /\ NODE_USE_V8_WASM_TRAP_HANDLER
  /\ ~HasFlag(f, kNoEnableWasmTrapHandler)

\* V8::EnableWebAssemblyTrapHandler called by `caller`: a second call is fatal.
EnableWebAssemblyTrapHandler(caller, nextPc) ==
  /\ trapHandlerCalls' = Append(trapHandlerCalls, caller)
  /\ initPc' = IF trapHandlerCalls # <<>> THEN "crashed" ELSE nextPc

\* The embedder registers the trap handler itself, once.
EmbedderEnablesTrapHandler ==
  /\ initPc # "crashed"
  /\ "embedder" \notin {trapHandlerCalls[i] : i \in 1..Len(trapHandlerCalls)}
  /\ EnableWebAssemblyTrapHandler("embedder", initPc)
  /\ UNCHANGED <<flags, NODE_USE_V8_WASM_TRAP_HANDLER, signalBlock>>
  /\ UNCHANGED <<mediaVars, envVars>>

\* The once-per-process initialization runs PlatformInit(flags).
PlatformInit ==
  /\ initPc = "start"
  /\ IF PlatformInitEnables(flags)
     THEN EnableWebAssemblyTrapHandler("PlatformInit", "initialized")
     ELSE initPc' = "initialized" /\ UNCHANGED trapHandlerCalls
  /\ UNCHANGED <<flags, NODE_USE_V8_WASM_TRAP_HANDLER, signalBlock>>
  /\ UNCHANGED <<mediaVars, envVars>>

PlatformStart ==
  /\ flags \in FlagValues
  /\ NODE_USE_V8_WASM_TRAP_HANDLER \in BOOLEAN
  /\ signalBlock \in BOOLEAN
  /\ initPc = "start"
  /\ trapHandlerCalls = <<>>

PlatformNext == EmbedderEnablesTrapHandler \/ PlatformInit

PlatformSpecInit == MediaIdle /\ EnvIdle /\ PlatformStart

PlatformSpec == PlatformSpecInit /\ [][PlatformNext]_vars

(***************************************************************************)
(* Properties of the media stream devices controller (under MediaSpec).    *)
(***************************************************************************)
\* TakeAction went past the session's chooser (it declined) to Accept or Deny.
ChooserDeclined == "devices" \in consulted

\* The number of places that hold the unfired callback or record its invocation.
CallbackTokens ==
  (IF callback_ = "bound" THEN 1 ELSE 0) + (IF sessionCallback = "bound" THEN 1 ELSE 0)
  + Len(calls)

\* C1: the completion callback is invoked exactly once: at every moment of a live
\* process the callback is either still held (by the controller or by the session's
\* chooser that took it) or has been invoked, never both and never twice; a
\* destroyed controller holds no callback, so once the controller is destroyed and
\* the chooser holds nothing the callback has been invoked exactly once.
C1_CallbackExactlyOnce ==
  /\ Len(calls) <= 1
  /\ pc # "crashed" => CallbackTokens = 1
  /\ pc = "destroyed" => callback_ = "null"
  /\ (pc = "destroyed" /\ sessionCallback = "null") => Len(calls) = 1

\* C1 witness: TakeAction resolved the request with OK and the controller was then
\* destroyed, the callback having been invoked once.
C1_Witness ==
  /\ pc = "destroyed"
  /\ Len(calls) = 1
  /\ calls[1].by = "controller"
  /\ calls[1].result = "OK"

\* C2: a step that destroys the controller invokes the callback exactly once, with
\* FAILED_DUE_TO_SHUTDOWN and an empty device list, when the callback is still
\* unfired, and invokes nothing when it was already fired or moved away.
C2_DestructorFiresIfUnfired ==
  [][(pc # "destroyed" /\ pc' = "destroyed") =>
       IF callback_ = "bound"
       THEN calls' = Append(calls, [by |-> "controller", devices |-> <<>>,
                                    result |-> "FAILED_DUE_TO_SHUTDOWN"])
       ELSE calls' = calls]_vars

\* C2 witness: the controller was destroyed before TakeAction and the caller got
\* FAILED_DUE_TO_SHUTDOWN with no devices.
C2_Witness ==
  /\ pc = "destroyed"
  /\ calls = <<[by |-> "controller", devices |-> <<>>,
                result |-> "FAILED_DUE_TO_SHUTDOWN"]>>
  /\ consulted = {}

\* The controller itself resolved a request for a physical device in TakeAction.
ResolvedDeviceRequest ==
  /\ ~IsScreenCast
  /\ microphone_requested_ \/ webcam_requested_
  /\ ChooserDeclined
  /\ pc \in {"taken", "destroyed"}
  /\ Len(calls) = 1
  /\ calls[1].by = "controller"

\* The host has a device of a kind the request asks for.
HostHasRequestedKind ==
  \/ microphone_requested_ /\ audio_devices # <<>>
  \/ webcam_requested_ /\ video_devices # <<>>

\* C3 as stated: a non-desktop, non-delegated request is accepted (OK) only if a
\* device of the requested kind(s) exists, and is answered NO_HARDWARE with an empty
\* list when no device of the requested kind(s) exists.
C3_Original ==
  ResolvedDeviceRequest =>
    /\ calls[1].result = "OK" => HostHasRequestedKind
    /\ ~HostHasRequestedKind =>
         calls[1].result = "NO_HARDWARE" /\ calls[1].devices = <<>>

\* C3 amended: a non-desktop, non-delegated request is accepted (OK) exactly when the
\* host has at least one capture device of any kind, audio or video, requested or
\* not; it is answered NO_HARDWARE with an empty list exactly when the host has no
\* audio and no video capture device at all.
C3_AnyDeviceDecides ==
  ResolvedDeviceRequest =>
    /\ calls[1].result = "OK" <=> (audio_devices # <<>> \/ video_devices # <<>>)
    /\ (audio_devices = <<>> /\ video_devices = <<>>) =>
         calls[1].result = "NO_HARDWARE" /\ calls[1].devices = <<>>
    /\ calls[1].result \in {"OK", "NO_HARDWARE"}

\* C3 witness: a microphone is requested while only cameras are attached, and the
\* request is accepted with OK and an empty device list.
C3_Witness ==
  /\ ResolvedDeviceRequest
  /\ request_.audio_type = "DEVICE_AUDIO_CAPTURE"
  /\ request_.video_type = "NO_SERVICE"
  /\ request_.request_type = "MEDIA_GENERATE_STREAM"
  /\ audio_devices = <<>>
  /\ video_devices # <<>>
  /\ calls[1].result = "OK"
  /\ calls[1].devices = <<>>

\* C4: a request for device audio and device video whose frame exists and whose
\* chooser declined, on a host with no audio and no video capture device, is
\* answered NO_HARDWARE with an empty device list.
C4_NoDevicesNoHardware ==
  ( /\ pc \in {"taken", "destroyed"}
    /\ request_.audio_type = "DEVICE_AUDIO_CAPTURE"
    /\ request_.video_type = "DEVICE_VIDEO_CAPTURE"
    /\ request_.frame_found
    /\ ChooserDeclined
    /\ audio_devices = <<>>
    /\ video_devices = <<>> )
  => calls = <<[by |-> "controller", devices |-> <<>>, result |-> "NO_HARDWARE"]>>

\* C4 witness: such a request has been answered NO_HARDWARE.
C4_Witness ==
  /\ pc = "taken"
  /\ request_.audio_type = "DEVICE_AUDIO_CAPTURE"
  /\ request_.video_type = "DEVICE_VIDEO_CAPTURE"
  /\ request_.frame_found
  /\ ChooserDeclined
  /\ audio_devices = <<>>
  /\ video_devices = <<>>
  /\ Len(calls) = 1
  /\ calls[1].result = "NO_HARDWARE"

\* The desktop-video descriptors among the devices of a callback invocation.
DesktopVideoIds(devices) ==
  { i \in 1..Len(devices) : devices[i].type = "GUM_DESKTOP_VIDEO_CAPTURE" }

\* C5: once TakeAction has run on a desktop-video request, exactly one desktop-video
\* descriptor is granted; its id is "screen:-1:0", the string form of the full-screen
\* sentinel, when no video device id was requested, and the string form of the
\* DesktopMediaID parsed from the requested id otherwise.
C5_DesktopVideoDescriptor ==
  (request_.video_type = "GUM_DESKTOP_VIDEO_CAPTURE" /\ takeActionRan) =>
    /\ Len(calls) = 1
    /\ calls[1].result = "OK"
    /\ Cardinality(DesktopVideoIds(calls[1].devices)) = 1
    /\ \A i \in DesktopVideoIds(calls[1].devices) :
         calls[1].devices[i].id =
           IF request_.requested_video_device_id = <<>>
           THEN <<"screen", "-1", "0">>
           ELSE DesktopMediaIDToString(
                  DesktopMediaIDParse(request_.requested_video_device_id))

\* C5 witness: the requested id "screen:01:0" was parsed and granted as "screen:1:0".
C5_Witness ==
  /\ request_.video_type = "GUM_DESKTOP_VIDEO_CAPTURE"
  /\ request_.requested_video_device_id = <<"screen", "01", "0">>
  /\ takeActionRan
  /\ Len(calls) = 1
  /\ \E i \in DesktopVideoIds(calls[1].devices) :
       calls[1].devices[i].id = <<"screen", "1", "0">>

\* The devices of `list` whose id is `id`.
Matching(list, id) == { i \in 1..Len(list) : list[i].id = id }

\* What C6 promises of a legacy request for the kind whose host devices are `list`
\* and whose requested id is `id`.
PepperGrant(list, id) ==
  /\ Matching(list, id) # {} =>
       \E i \in Matching(list, id) : calls[1].devices = <<list[i]>>
  /\ (Matching(list, id) = {} /\ list # <<>>) => calls[1].devices = <<list[1]>>

\* C6: when Accept handles a MEDIA_OPEN_DEVICE_PEPPER_ONLY request the result is OK;
\* for the one kind the request opens (audio when the audio kind is device audio,
\* else video when the video kind is device video) the device with the requested id
\* is granted when the host knows it, and otherwise the first device of that kind
\* when the host has one.
C6_PepperRequestedOrFirst ==
  ( /\ request_.request_type = "MEDIA_OPEN_DEVICE_PEPPER_ONLY"
    /\ ~IsScreenCast
    /\ ChooserDeclined
    /\ audio_devices # <<>> \/ video_devices # <<>> )
  => /\ Len(calls) = 1
     /\ calls[1].by = "controller"
     /\ calls[1].result = "OK"
     /\ IF request_.audio_type = "DEVICE_AUDIO_CAPTURE"
        THEN PepperGrant(audio_devices, request_.requested_audio_device_id)
        ELSE request_.video_type = "DEVICE_VIDEO_CAPTURE" =>
               PepperGrant(video_devices, request_.requested_video_device_id)

\* C6 witness: the requested microphone "mic9" is unknown and the first microphone
\* of the host was granted instead.
C6_Witness ==
  /\ request_.request_type = "MEDIA_OPEN_DEVICE_PEPPER_ONLY"
  /\ request_.audio_type = "DEVICE_AUDIO_CAPTURE"
  /\ request_.requested_audio_device_id = <<"mic9">>
  /\ ChooserDeclined
  /\ Len(audio_devices) = 2
  /\ Len(calls) = 1
  /\ calls[1].result = "OK"
  /\ calls[1].devices = <<audio_devices[1]>>

\* C7: every invocation of the callback made by the controller carries OK,
\* NO_HARDWARE or FAILED_DUE_TO_SHUTDOWN, and a result other than OK comes with an
\* empty device list.
C7_ResultsAndEmptyOnFailure ==
  \A i \in 1..Len(calls) :
    calls[i].by = "controller" =>
      /\ calls[i].result \in {"OK", "NO_HARDWARE", "FAILED_DUE_TO_SHUTDOWN"}
      /\ calls[i].result # "OK" => calls[i].devices = <<>>

\* C7 witness: the controller answered a request with NO_HARDWARE and no devices.
C7_Witness ==
  /\ Len(calls) = 1
  /\ calls[1].by = "controller"
  /\ calls[1].result = "NO_HARDWARE"
  /\ calls[1].devices = <<>>

(***************************************************************************)
(* Properties of the embedder preload hook (under EnvSpec).                *)
(***************************************************************************)
\* The positions of event ev in a trace.
Positions(trace, ev) == { i \in 1..Len(trace) : trace[i] = ev }

\* C8: a worker's environment has the embedder preload hook of the environment that
\* created the worker; in every environment that has a hook, the hook is invoked at
\* most once, and exactly once, first of all and with (process, require), by the
\* time the bootstrap is past setupUserModules; every user module and the entry
\* point run after it, and the entry point sees what the hook did to process.
C8_PreloadOnceBeforeUserCode ==
  \A e \in 1..Len(envs) :
    LET env == envs[e] IN
    /\ env.kind = "worker" => env.embedder_preload_ = envs[env.parent].embedder_preload_
    /\ env.embedder_preload_ # nullfn =>
         /\ Cardinality(Positions(env.trace, "embedder_preload")) <= 1
         /\ env.pc \in {"preloaded", "running"} =>
              /\ Positions(env.trace, "embedder_preload") = {1}
              /\ env.hook_args = << <<"process", "require">> >>
         /\ \A i \in Positions(env.trace, "user_module") \cup Positions(env.trace, "entry") :
              \E j \in 1..(i - 1) : env.trace[j] = "embedder_preload"
         /\ env.pc = "running" => env.entry_saw = env.embedder_preload_

\* C8 witness: a worker created by a worker runs its entry point after the hook
\* inherited from the main environment and a user preload module, and sees the
\* hook's effect.
C8_Witness ==
  \E e \in 1..Len(envs) :
    /\ envs[e].kind = "worker"
    /\ envs[envs[e].parent].kind = "worker"
    /\ envs[e].embedder_preload_ = "preloadA"
    /\ envs[e].trace = <<"embedder_preload", "user_module", "entry">>
    /\ envs[e].entry_saw = "preloadA"

\* C9: the hasEmbedderPreload flag an environment was given is true exactly when its
\* embedder_preload callback is non-null; no CHECK of RunEmbedderPreload fails, the
\* hook having run only in environments whose callback is non-null; an environment
\* with no preload never runs one.
C9_FlagReflectsHook ==
  /\ ~nodeCrashed
  /\ \A e \in 1..Len(envs) :
       LET env == envs[e] IN
       /\ env.hasEmbedderPreload # "unqueried" =>
            (env.hasEmbedderPreload = "true" <=> env.embedder_preload_ # nullfn)
       /\ env.hook_args # <<>> => env.embedder_preload_ # nullfn
       /\ env.embedder_preload_ = nullfn =>
            /\ Positions(env.trace, "embedder_preload") = {}
            /\ env.process_prop = "undefined"

\* C9 witness: the main environment was loaded with no preload, was told
\* hasEmbedderPreload is false, and ran a user module and its entry point with no
\* hook run.
C9_Witness ==
  /\ envs[1].embedder_preload_ = nullfn
  /\ envs[1].hasEmbedderPreload = "false"
  /\ envs[1].trace = <<"user_module", "entry">>
  /\ ~nodeCrashed

(***************************************************************************)
(* Properties of the process initialization (under PlatformSpec).          *)
(***************************************************************************)
\* Who has called V8::EnableWebAssemblyTrapHandler.
TrapHandlerCallers == { trapHandlerCalls[i] : i \in 1..Len(trapHandlerCalls) }

\* C10: with kNoEnableWasmTrapHandler set PlatformInit never calls
\* V8::EnableWebAssemblyTrapHandler, so the fatal second registration is never
\* reached and an embedder that registered the handler is the only caller; without
\* the flag PlatformInit calls it whenever the code around the call is compiled in
\* and reached, as before the flag existed.
C10_TrapHandlerGuard ==
  /\ HasFlag(flags, kNoEnableWasmTrapHandler) =>
       /\ "PlatformInit" \notin TrapHandlerCallers
       /\ initPc # "crashed"
       /\ Len(trapHandlerCalls) <= 1
       /\ "embedder" \in TrapHandlerCallers => trapHandlerCalls = <<"embedder">>
  /\ (~HasFlag(flags, kNoEnableWasmTrapHandler) /\ initPc # "start") =>
       ("PlatformInit" \in TrapHandlerCallers
          <=> (NODE_USE_V8_WASM_TRAP_HANDLER /\ signalBlock))

\* C10 witness: the embedder registered the handler, then the initialization ran
\* with the flag in a build that would otherwise register it, and finished with one
\* registration.
C10_Witness ==
  /\ HasFlag(flags, kNoEnableWasmTrapHandler)
  /\ NODE_USE_V8_WASM_TRAP_HANDLER
  /\ signalBlock
  /\ initPc = "initialized"
  /\ trapHandlerCalls = <<"embedder">>

(***************************************************************************)
(* Properties of the tab and desktop path.                                 *)
(***************************************************************************)
\* The descriptors of kind `type` among `devices`.
OfType(devices, type) == { i \in 1..Len(devices) : devices[i].type = type }

\* 1 when the condition holds, else 0.
One(cond) == IF cond THEN 1 ELSE 0

\* C11 (under UserMediaSpec): when HandleUserMediaRequest has returned, the callback
\* has been invoked once, no device list of the host and no chooser was consulted,
\* and the list passed holds exactly one descriptor per matching kind field
\* (tab-audio, tab-video, desktop-audio with id "loopback" and name "System Audio",
\* desktop-video) and nothing else; the result is OK when that list is not empty and
\* NO_HARDWARE, with the empty list, when it is.
C11_UserMediaPath ==
  pc = "taken" =>
    /\ Len(calls) = 1
    /\ calls[1].by = "controller"
    /\ callback_ = "null"
    /\ consulted = {}
    /\ LET devices == calls[1].devices IN
       /\ Cardinality(OfType(devices, "GUM_TAB_AUDIO_CAPTURE"))
            = One(request_.audio_type = "GUM_TAB_AUDIO_CAPTURE")
       /\ Cardinality(OfType(devices, "GUM_TAB_VIDEO_CAPTURE"))
            = One(request_.video_type = "GUM_TAB_VIDEO_CAPTURE")
       /\ Cardinality(OfType(devices, "GUM_DESKTOP_AUDIO_CAPTURE"))
            = One(request_.audio_type = "GUM_DESKTOP_AUDIO_CAPTURE")
       /\ Cardinality(OfType(devices, "GUM_DESKTOP_VIDEO_CAPTURE"))
            = One(request_.video_type = "GUM_DESKTOP_VIDEO_CAPTURE")
       /\ Len(devices) = One(request_.audio_type = "GUM_TAB_AUDIO_CAPTURE")
                         + One(request_.video_type = "GUM_TAB_VIDEO_CAPTURE")
                         + One(request_.audio_type = "GUM_DESKTOP_AUDIO_CAPTURE")
                         + One(request_.video_type = "GUM_DESKTOP_VIDEO_CAPTURE")
       /\ \A i \in OfType(devices, "GUM_DESKTOP_AUDIO_CAPTURE") :
            devices[i].id = <<"loopback">> /\ devices[i].name = "System Audio"
       /\ calls[1].result = IF devices = <<>> THEN "NO_HARDWARE" ELSE "OK"

\* C11 witness: a desktop-audio and tab-video request was answered OK with the
\* tab-video descriptor and the system audio descriptor.
C11_Witness ==
  /\ pc = "taken"
  /\ request_.audio_type = "GUM_DESKTOP_AUDIO_CAPTURE"
  /\ request_.video_type = "GUM_TAB_VIDEO_CAPTURE"
  /\ Len(calls) = 1
  /\ calls[1].result = "OK"
  /\ calls[1].devices =
       <<MediaStreamDevice("GUM_TAB_VIDEO_CAPTURE", <<>>, ""),
         MediaStreamDevice("GUM_DESKTOP_AUDIO_CAPTURE", <<"loopback">>, "System Audio")>>

\* The NO_HARDWARE answer of the tab and desktop path: reached only when the method
\* is entered with a request of no tab or desktop kind.
UserMediaNoHardwareReached ==
  /\ pc = "taken"
  /\ calls = <<[by |-> "controller", devices |-> <<>>, result |-> "NO_HARDWARE"]>>

(***************************************************************************)
(* Delegation to the session's chooser.                                    *)
(***************************************************************************)
\* The chooser accepted the request: it was consulted and the device lists were not.
Delegated == "session" \in consulted /\ ~ChooserDeclined

\* C12: when the session's chooser accepts a request, the controller never invokes
\* the callback, neither in TakeAction (no Accept, no Deny, no device list read) nor
\* in the destructor; when the chooser declines, the controller itself answers, once,
\* with the OK of Accept or the NO_HARDWARE of Deny, unless Accept stopped the
\* program at its unreachable case.
C12_DelegationTransfersCallback ==
  /\ Delegated =>
       /\ ~IsScreenCast /\ request_.frame_found
       /\ pc \in {"taken", "destroyed"}
       /\ callback_ = "null"
       /\ \A i \in 1..Len(calls) : calls[i].by = "session"
  /\ ChooserDeclined =>
       /\ ~IsScreenCast /\ request_.frame_found
       /\ sessionCallback = "null"
       /\ \/ /\ pc = "crashed"
             /\ calls = <<>>
             /\ request_.request_type = "MEDIA_DEVICE_UPDATE"
          \/ /\ pc \in {"taken", "destroyed"}
             /\ Len(calls) = 1
             /\ calls[1].by = "controller"
             /\ calls[1].result = IF HasAnyAvailableDevice THEN "OK" ELSE "NO_HARDWARE"

\* C12 witness: a delegated request whose controller was destroyed before the chooser
\* answered; nobody has been called.
C12_Witness ==
  /\ Delegated
  /\ pc = "destroyed"
  /\ sessionCallback = "bound"
  /\ calls = <<>>

(***************************************************************************)
(* Accept, MEDIA_GENERATE_STREAM.                                          *)
(***************************************************************************)
\* The devices of kind `type` the callback received, in order.
Granted(type) == SelectSeq(calls[1].devices, LAMBDA d : d.type = type)

\* What one kind is granted: the device of the requested id when the id is given and
\* known, else the first device of the host when the kind is requested, else nothing.
KindGrant(type, list, id, requested) ==
  IF id # <<>> /\ Matching(list, id) # {}
  THEN \E i \in Matching(list, id) : Granted(type) = <<list[i]>>
  ELSE IF requested /\ list # <<>>
  THEN Granted(type) = <<list[1]>>
  ELSE Granted(type) = <<>>

\* C13: when Accept serves a MEDIA_GENERATE_STREAM request (some device kind is
\* requested), each kind whose requested id is given and known is granted exactly
\* that device and no default; a requested kind with no id or an unknown id is
\* granted the first device of the host; a kind that is not requested and not
\* resolved by id is granted nothing.
C13_GenerateStreamGrant ==
  (ResolvedDeviceRequest /\ request_.request_type = "MEDIA_GENERATE_STREAM"
   /\ calls[1].result = "OK") =>
    /\ KindGrant("DEVICE_AUDIO_CAPTURE", audio_devices,
                 request_.requested_audio_device_id, microphone_requested_)
    /\ KindGrant("DEVICE_VIDEO_CAPTURE", video_devices,
                 request_.requested_video_device_id, webcam_requested_)
    /\ Len(calls[1].devices) = Len(Granted("DEVICE_AUDIO_CAPTURE"))
                               + Len(Granted("DEVICE_VIDEO_CAPTURE"))

\* C13 witness: audio resolved by the id of the host's second microphone, video left
\* without an id and granted the host's first camera.
C13_Witness ==
  /\ ResolvedDeviceRequest
  /\ request_.request_type = "MEDIA_GENERATE_STREAM"
  /\ microphone_requested_ /\ webcam_requested_
  /\ Len(audio_devices) = 2
  /\ Len(video_devices) = 2
  /\ request_.requested_audio_device_id = audio_devices[2].id
  /\ request_.requested_video_device_id = <<>>
  /\ calls[1].result = "OK"
  /\ calls[1].devices = <<audio_devices[2], video_devices[1]>>

(***************************************************************************)
(* MEDIA_DEVICE_UPDATE.                                                    *)
(***************************************************************************)
\* The kinds HandleUserMediaRequest serves.
ScreenCastTypes ==
  {"GUM_TAB_AUDIO_CAPTURE", "GUM_TAB_VIDEO_CAPTURE",
   "GUM_DESKTOP_AUDIO_CAPTURE", "GUM_DESKTOP_VIDEO_CAPTURE"}

\* The request names a tab or desktop kind in its audio or its video field.
ScreenCastRequest ==
  request_.audio_type \in ScreenCastTypes \/ request_.video_type \in ScreenCastTypes

\* Accept was entered: the chooser declined and the host has a device.
AcceptEntered == ChooserDeclined /\ HasAnyAvailableDevice

\* C14 as stated: an update-type request is never answered OK by the controller, and
\* wherever Accept handles one the program has stopped at the unreachable case.
C14_Original ==
  request_.request_type = "MEDIA_DEVICE_UPDATE" =>
    /\ \A i \in 1..Len(calls) :
         ~(calls[i].by = "controller" /\ calls[i].result = "OK")
    /\ AcceptEntered => pc = "crashed"

\* C14 (amended): an update-type request is never granted a microphone or a camera.
\* The program stops only in Accept, only for an update-type request that asks for a
\* microphone or a camera, and before the callback is invoked.  The controller does
\* answer update-type requests with OK: with the synthesized descriptors when the
\* request names a tab or desktop kind, and with the empty list when Accept is
\* entered and either no device kind is requested or NOTREACHED() does not stop the
\* program.
C14_UpdateRequests ==
  /\ pc = "crashed" =>
       /\ request_.request_type = "MEDIA_DEVICE_UPDATE"
       /\ AcceptEntered
       /\ microphone_requested_ \/ webcam_requested_
       /\ calls = <<>>
  /\ request_.request_type = "MEDIA_DEVICE_UPDATE" =>
       /\ \A i \in 1..Len(calls) :
            (calls[i].by = "controller" /\ calls[i].result = "OK") =>
              \/ /\ ScreenCastRequest
                 /\ calls[i].devices # <<>>
                 /\ \A k \in 1..Len(calls[i].devices) :
                      calls[i].devices[k].type \in ScreenCastTypes
              \/ /\ AcceptEntered
                 /\ calls[i].devices = <<>>
       /\ AcceptEntered =>
            \/ pc = "crashed"
            \/ /\ Len(calls) = 1
               /\ calls[1] = [by |-> "controller", devices |-> <<>>, result |-> "OK"]

\* C14 witness: Accept stopped the program on an update-type request for a microphone
\* on a host that has one.
C14_Witness ==
  /\ pc = "crashed"
  /\ request_.request_type = "MEDIA_DEVICE_UPDATE"
  /\ request_.audio_type = "DEVICE_AUDIO_CAPTURE"
  /\ audio_devices # <<>>
  /\ calls = <<>>

\* An update-type request for a desktop video answered OK with its descriptor.
UpdateGrantedDesktopVideo ==
  /\ request_.request_type = "MEDIA_DEVICE_UPDATE"
  /\ request_.video_type = "GUM_DESKTOP_VIDEO_CAPTURE"
  /\ Len(calls) = 1
  /\ calls[1].result = "OK"
  /\ Len(calls[1].devices) = 1

(***************************************************************************)
(* The frame of the request is gone.                                       *)
(***************************************************************************)
\* C15: for a request of no tab or desktop kind whose frame is not found, TakeAction
\* returns with the callback still bound and not invoked, the chooser and the device
\* lists not consulted; the only answer such a request ever gets is the destructor's
\* FAILED_DUE_TO_SHUTDOWN with the empty list.
C15_FrameNotFound ==
  (~ScreenCastRequest /\ ~request_.frame_found) =>
    /\ consulted = {}
    /\ sessionCallback = "null"
    /\ pc \in {"constructed", "taken", "destroyed"}
    /\ pc \in {"constructed", "taken"} => calls = <<>> /\ callback_ = "bound"
    /\ pc = "destroyed" =>
         /\ calls = <<[by |-> "controller", devices |-> <<>>,
                       result |-> "FAILED_DUE_TO_SHUTDOWN"]>>
         /\ callback_ = "null"

\* C15 witness: TakeAction ran on a microphone request whose frame was gone, and the
\* destructor then reported the shutdown.
C15_Witness ==
  /\ ~request_.frame_found
  /\ request_.audio_type = "DEVICE_AUDIO_CAPTURE"
  /\ request_.video_type = "NO_SERVICE"
  /\ audio_devices # <<>>
  /\ takeActionRan
  /\ pc = "destroyed"
  /\ Len(calls) = 1
  /\ calls[1].result = "FAILED_DUE_TO_SHUTDOWN"
  /\ calls[1].devices = <<>>

(***************************************************************************)
(* TakeAction's routing to the tab and desktop path.                       *)
(***************************************************************************)
\* C16: once TakeAction has run on a request that names a tab or desktop kind in
\* either field, the callback has been invoked once by the controller with OK and
\* one or two descriptors, all of a tab or desktop kind (a microphone or camera in
\* the other field is granted nothing), whether or not the frame exists, and neither
\* the chooser nor the device lists were consulted.
C16_ScreenCastRouting ==
  (ScreenCastRequest /\ takeActionRan) =>
    /\ pc \in {"taken", "destroyed"}
    /\ Len(calls) = 1
    /\ calls[1].by = "controller"
    /\ calls[1].result = "OK"
    /\ Len(calls[1].devices) \in {1, 2}
    /\ \A k \in 1..Len(calls[1].devices) :
         calls[1].devices[k].type \in ScreenCastTypes
    /\ consulted = {}
    /\ sessionCallback = "null"

\* C16 witness: a request for the device microphone and a desktop video, on a host
\* with a microphone, was granted the desktop video descriptor alone.
C16_Witness ==
  /\ takeActionRan
  /\ request_.audio_type = "DEVICE_AUDIO_CAPTURE"
  /\ request_.video_type = "GUM_DESKTOP_VIDEO_CAPTURE"
  /\ audio_devices # <<>>
  /\ Len(calls) = 1
  /\ calls[1].result = "OK"
  /\ Len(calls[1].devices) = 1
  /\ calls[1].devices[1].type = "GUM_DESKTOP_VIDEO_CAPTURE"
  /\ consulted = {}

====
